---- MODULE Spec2Model ----
\* Attendance marking of the attendance system: the POST /api/attendance
\* handler (server routes), DatabaseStorage.markAttendance and the
\* attendance table with its (lesson_id, student_id) unique index; the
\* lesson routes, the deletions of users and classes, data clear, backup
\* and restore, which write the tables the handler reads.
\*
\* Time is a count of minutes; minute 0 is a Sunday 00:00 in the server's
\* time zone, which is taken to have no daylight-saving shifts, so the
\* local-field setters of Date (setDate, setHours, setMinutes) are plain
\* arithmetic on the count.
EXTENDS Integers, FiniteSets, Sequences, TLC

VARIABLES now, users, lessons, attendance, nextAttendanceId, last, procs,
          nextLessonId, classes, teacherDepartments, backup, createdBy,
          departments, levels, systemSettings

\* what the attendance handler never writes: the lessons sequence, the
\* classes and teacher_departments tables, the backup file, and the record
\* of the operation that created each lesson, the departments and levels
\* tables and the system_settings row
tables == <<nextLessonId, classes, teacherDepartments, backup, createdBy,
            departments, levels, systemSettings>>

vars == <<now, users, lessons, attendance, nextAttendanceId, last, procs,
          nextLessonId, classes, teacherDepartments, backup, createdBy,
          departments, levels, systemSettings>>

----------------------------------------------------------------------------
\* Bounds of the model

FirstDay == 7        \* first calendar day the clock can show (day 0 is a Sunday)
MaxWeekday == 6      \* SpecEval: the clock shows the days FirstDay + 0..MaxWeekday
MaxWeek == 1         \* Spec: further weeks the clock can reach
MaxProcs == 2        \* concurrent request handlers in SpecConc

\* Program constants
MinutesPerDay == 1440
InstantLessonAge == 1440      \* 24 * 60 * 60 * 1000 ms
PreClassMinutes == 10
DefaultAttendanceWindow == 30

NoTime == -1
NoClass == 0

DayMinutes == {10, 555, 630, 1435}
Days == {FirstDay + d : d \in 0..MaxWeekday}
Instants == {d * MinutesPerDay + m : d \in Days, m \in DayMinutes}

\* the instants the clock of Spec shows: 09:15 of the first day, five
\* minutes later, and the same time of the following weeks
SysStart == FirstDay * MinutesPerDay + 555
SysInstants == {SysStart + 5} \cup {SysStart + 7 * MinutesPerDay * w : w \in 0..MaxWeek}

\* Lesson fields the evaluation is explored over
DaysOfWeek == 0..6
StartTimes == {5, 540, 1430}
Durations == {15, 60}
AttendanceWindows == {5, 30}
Ages == {5, 40, 1440}

AdminId == 1
TeacherIds == {2, 3}
StudentIds == {4, 5}
Statuses == {"present", "absent"}
Procs == 1..MaxProcs

\* the password clearAllData gives the admin accounts; a password field
\* holds the word its hash verifies
DefaultPassword == "admin"

\* users table (part_000 users): id, username, password, role, classId
UserRow(id, username, role, classId) ==
  [id |-> id, username |-> username, password |-> "secret", role |-> role,
   classId |-> classId]

InitUsers ==
  (1 :> UserRow(1, "head", "admin", NoClass)) @@
  (2 :> UserRow(2, "teacher2", "teacher", NoClass)) @@
  (3 :> UserRow(3, "teacher3", "teacher", NoClass)) @@
  (4 :> UserRow(4, "student4", "student", 1)) @@
  (5 :> UserRow(5, "student5", "student", 2))

----------------------------------------------------------------------------
\* Date arithmetic as the handler performs it

\* the % operator of the language: the sign follows the dividend
JsMod(a, b) == IF a >= 0 THEN a % b ELSE 0 - ((0 - a) % b)

\* Date.getDay(): 0 is Sunday
GetDay(t) == (t \div MinutesPerDay) % 7

\* d.setDate(d.getDate() - back): the same time of day, back days earlier
SetDateBackMutant(t, back) == t + back * MinutesPerDay

SetDateBack(t, back) == t - back * MinutesPerDay

\* d.setHours(h, m, 0, 0): the same calendar day at h:m
SetHours(t, h, m) == (t \div MinutesPerDay) * MinutesPerDay + h * 60 + m

\* d.setMinutes(d.getMinutes() + delta): the minutes field is replaced and
\* the date is normalised, rolling over hours and days in both directions
SetMinutesMutant(t, delta) ==
  LET m == (t % 60) + delta
      c == IF m < 0 THEN 0 ELSE IF m > 59 THEN 59 ELSE m
  IN  (t - (t % 60)) + c

SetMinutes(t, delta) == (t - (t % 60)) + ((t % 60) + delta)

\* daysUntilNext of the handler
DaysUntilNext(lesson, t) == JsMod(lesson.dayOfWeek - GetDay(t) + 7, 7)

\* lessonDate: the most recent day with the lesson's weekday, at the
\* lesson's start time
LessonDate(lesson, t) ==
  LET d == IF lesson.dayOfWeek # GetDay(t)
             THEN SetDateBack(t, JsMod(GetDay(t) - lesson.dayOfWeek + 7, 7))
             ELSE t
  IN  SetHours(d, lesson.startTimeMinutes \div 60, lesson.startTimeMinutes % 60)

IsInstantLessonMutant(lesson, t) == FALSE

IsInstantLesson(lesson, t) == t - lesson.createdAt < InstantLessonAge

\* lesson.attendanceWindowMinutes || 30
WindowMinutes(lesson) ==
  IF lesson.attendanceWindowMinutes = 0 THEN DefaultAttendanceWindow
  ELSE lesson.attendanceWindowMinutes

PreClassWindow(lesson, t) ==
  IF IsInstantLesson(lesson, t) THEN lesson.createdAt
  ELSE SetMinutes(LessonDate(lesson, t), 0 - PreClassMinutes)

LessonEndTime(lesson, t) ==
  IF IsInstantLesson(lesson, t)
    THEN SetMinutes(lesson.createdAt, WindowMinutes(lesson))
    ELSE SetMinutes(LessonDate(lesson, t), lesson.durationMinutes)

----------------------------------------------------------------------------
\* The checks of the POST /api/attendance handler, in source order

MsgInvalid == "Validation error"
MsgNotFound == "Lesson not found"
MsgFuture == "Cannot mark attendance for future lessons"
MsgWindow == "Attendance window is not open"
MsgOwn == "You can only mark your own attendance"
MsgClass == "You are not part of this class"
MsgTeacher == "You can only mark attendance for your own lessons"
MsgUnique == "duplicate key value violates unique constraint lesson_student_idx"

Respond(code, message) ==
  [code |-> code, message |-> message, opensAt |-> NoTime, closesAt |-> NoTime,
   currentTime |-> NoTime, isInstantLesson |-> FALSE]

FutureLessonRejectedMutant(user, lesson, t) ==
  /\ lesson.dayOfWeek # GetDay(t)
  /\ user.role = "student"
  /\ DaysUntilNext(lesson, t) > 1

\* the student branch taken when the lesson's weekday is not today's
FutureLessonRejected(user, lesson, t) ==
  /\ lesson.dayOfWeek # GetDay(t)
  /\ user.role = "student"
  /\ DaysUntilNext(lesson, t) # 0
  /\ DaysUntilNext(lesson, t) > 0

\* the window test, enforced for students only
WindowRejectedMutant(user, lesson, t, force) ==
  /\ user.role = "student"
  /\ (t < PreClassWindow(lesson, t) \/ t > LessonEndTime(lesson, t))
  /\ lesson.isActive

WindowRejected(user, lesson, t, force) ==
  /\ user.role = "student"
  /\ (t < PreClassWindow(lesson, t) \/ t > LessonEndTime(lesson, t))
  /\ lesson.isActive
  /\ ~force

TeacherRejectedMutant(user, lesson) == user.role = "teacher"

TeacherRejected(user, lesson) ==
  user.role = "teacher" /\ lesson.teacherId # user.id

\* a student may mark their own attendance only
OwnRejectedMutant(user, data) == FALSE

OwnRejected(user, data) == user.role = "student" /\ data.studentId # user.id

\* a student may mark lessons of their own class only
ClassRejectedMutant(user, lesson) == FALSE

ClassRejected(user, lesson) == user.role = "student" /\ user.classId # lesson.classId

\* insertAttendanceSchema.parse(req.body): the status is one of the enum
InvalidBody(data) == data.status \notin Statuses

\* the checks with the own-attendance test ahead of the window test
AttendanceChecksMutant(user, data, force, t) ==
  IF InvalidBody(data) THEN Respond(400, MsgInvalid)
  ELSE IF data.lessonId \notin DOMAIN lessons THEN Respond(404, MsgNotFound)
  ELSE LET lesson == lessons[data.lessonId] IN
    IF OwnRejected(user, data) THEN Respond(403, MsgOwn)
    ELSE IF FutureLessonRejected(user, lesson, t) THEN Respond(403, MsgFuture)
    ELSE IF WindowRejected(user, lesson, t, force)
      THEN [code |-> 403, message |-> MsgWindow,
            opensAt |-> PreClassWindow(lesson, t),
            closesAt |-> LessonEndTime(lesson, t),
            currentTime |-> t,
            isInstantLesson |-> IsInstantLesson(lesson, t)]
    ELSE IF ClassRejected(user, lesson) THEN Respond(403, MsgClass)
    ELSE IF TeacherRejected(user, lesson) THEN Respond(403, MsgTeacher)
    ELSE Respond(0, "")

\* The response the handler sends before it reaches storage.markAttendance;
\* code 0 stands for reaching storage.markAttendance.
AttendanceChecks(user, data, force, t) ==
  IF InvalidBody(data) THEN Respond(400, MsgInvalid)
  ELSE IF data.lessonId \notin DOMAIN lessons THEN Respond(404, MsgNotFound)
  ELSE LET lesson == lessons[data.lessonId] IN
    IF FutureLessonRejected(user, lesson, t) THEN Respond(403, MsgFuture)
    ELSE IF WindowRejected(user, lesson, t, force)
      THEN [code |-> 403, message |-> MsgWindow,
            opensAt |-> PreClassWindow(lesson, t),
            closesAt |-> LessonEndTime(lesson, t),
            currentTime |-> t,
            isInstantLesson |-> IsInstantLesson(lesson, t)]
    ELSE IF OwnRejected(user, data) THEN Respond(403, MsgOwn)
    ELSE IF ClassRejected(user, lesson) THEN Respond(403, MsgClass)
    ELSE IF TeacherRejected(user, lesson) THEN Respond(403, MsgTeacher)
    ELSE Respond(0, "")

----------------------------------------------------------------------------
\* DatabaseStorage.markAttendance and the attendance table

\* the select of the rows of the pair
ExistingRecordsMutant(att, data) ==
  {r \in att : r.lessonId = data.lessonId}

ExistingRecords(att, data) ==
  {r \in att : r.lessonId = data.lessonId /\ r.studentId = data.studentId}

\* the rows after the update branch: every selected row but the kept one is
\* deleted, the kept row gets the status and a fresh markedAt
UpdateRecordMutant(att, existingIds, keepId, data, t) ==
  {IF r.id = keepId THEN [r EXCEPT !.status = data.status] ELSE r :
     r \in {x \in att : x.id \notin (existingIds \ {keepId})}}

UpdateRecord(att, existingIds, keepId, data, t) ==
  {IF r.id = keepId THEN [r EXCEPT !.status = data.status, !.markedAt = t]
   ELSE r :
     r \in {x \in att : x.id \notin (existingIds \ {keepId})}}

\* the unique index lesson_student_idx on (lesson_id, student_id)
UniqueViolationMutant(att, data) == FALSE

UniqueViolation(att, data) == ExistingRecords(att, data) # {}

\* the row of the insert branch; marked_at is set by the call, created_at by
\* the column default
NewRecord(id, data, t) ==
  [id |-> id, lessonId |-> data.lessonId, studentId |-> data.studentId,
   status |-> data.status, markedAt |-> t, createdAt |-> t]

NoRequest ==
  [actor |-> 0, lessonId |-> 0, studentId |-> 0, status |-> "", force |-> FALSE,
   at |-> NoTime] @@ Respond(0, "")

Request(actor, data, force, t) ==
  [actor |-> actor, lessonId |-> data.lessonId, studentId |-> data.studentId,
   status |-> data.status, force |-> force, at |-> t]

\* POST /api/attendance served without interleaving: the handler's checks
\* and then the whole of storage.markAttendance
MarkAttendance(actor, lessonId, studentId, status, force) ==
  LET data == [lessonId |-> lessonId, studentId |-> studentId, status |-> status]
      resp == AttendanceChecks(users[actor], data, force, now)
      existing == ExistingRecords(attendance, data)
  IN  /\ actor \in DOMAIN users
      /\ IF resp.code # 0
           THEN /\ last' = Request(actor, data, force, now) @@ resp
                /\ UNCHANGED <<attendance, nextAttendanceId>>
           ELSE /\ last' = Request(actor, data, force, now) @@ Respond(201, "")
                /\ IF existing # {}
                     THEN /\ \E keep \in existing :
                               attendance' = UpdateRecord(attendance,
                                               {r.id : r \in existing},
                                               keep.id, data, now)
                          /\ UNCHANGED nextAttendanceId
                     ELSE /\ attendance' = attendance \cup
                               {NewRecord(nextAttendanceId, data, now)}
                          /\ nextAttendanceId' = nextAttendanceId + 1
      /\ UNCHANGED <<now, users, lessons, procs, tables>>

\* the system clock advances
Tick(t) ==
  /\ t > now
  /\ now' = t
  /\ UNCHANGED <<users, lessons, attendance, nextAttendanceId, last, procs, tables>>

----------------------------------------------------------------------------
\* Specifications

IdleProcs == [p \in Procs |-> [pc |-> "idle"] @@ NoRequest @@ [existing |-> {}]]

LessonRow(id, classId, teacherId, dow, start, dur, aw, active, createdAt) ==
  [id |-> id, classId |-> classId, teacherId |-> teacherId, dayOfWeek |-> dow,
   startTimeMinutes |-> start, durationMinutes |-> dur,
   attendanceWindowMinutes |-> aw, isActive |-> active, createdAt |-> createdAt]

\* classes 1 and 2 of departments 1 and 2; teacher 2 is of department 1,
\* teacher 3 of department 2
InitClasses ==
  (1 :> [id |-> 1, departmentId |-> 1]) @@ (2 :> [id |-> 2, departmentId |-> 2])

InitTeacherDepartments ==
  {[teacherId |-> 2, departmentId |-> 1], [teacherId |-> 3, departmentId |-> 2]}

\* departments 1 and 2, level 1
InitDepartments ==
  (1 :> [id |-> 1, name |-> "Science"]) @@ (2 :> [id |-> 2, name |-> "Arts"])

InitLevels == (1 :> [id |-> 1, number |-> 1, name |-> "Level 1"])

\* the system_settings row as initializeSystemSettings writes it (the fields
\* the restore copies, and one it does not)
InitSystemSettings ==
  [id |-> 1, defaultAttendanceWindow |-> DefaultAttendanceWindow,
   schoolName |-> "", emailNotifications |-> TRUE]

NoBackup ==
  [written |-> FALSE, users |-> [i \in {} |-> 0], classes |-> [i \in {} |-> 0],
   lessons |-> [i \in {} |-> 0], attendance |-> {}, teacherDepartments |-> {},
   departments |-> [i \in {} |-> 0], levels |-> [i \in {} |-> 0],
   systemSettings |-> InitSystemSettings]

\* the tables beside one seeded lesson, before any backup is written
InitTables ==
  /\ nextLessonId = 2
  /\ classes = InitClasses
  /\ teacherDepartments = InitTeacherDepartments
  /\ backup = NoBackup
  /\ createdBy = (1 :> "regular")
  /\ departments = InitDepartments
  /\ levels = InitLevels
  /\ systemSettings = InitSystemSettings

\* One lesson of class 1 taught by teacher 2, created Ages minutes ago, at
\* any sampled instant: the states the evaluation is explored from.
InitEval ==
  /\ now \in Instants
  /\ users = InitUsers
  /\ \E dow \in DaysOfWeek, start \in StartTimes, dur \in Durations,
        aw \in AttendanceWindows, active \in BOOLEAN, age \in Ages :
       lessons = (1 :> LessonRow(1, 1, 2, dow, start, dur, aw, active, now - age))
  /\ attendance = {}
  /\ nextAttendanceId = 1
  /\ last = NoRequest
  /\ procs = IdleProcs
  /\ InitTables

\* the (actor, studentId) pairs of the requests: each student for either
\* student, the admin and both teachers for student 4
EvalRequests == {<<1, 4>>, <<2, 4>>, <<3, 4>>, <<4, 4>>, <<4, 5>>, <<5, 4>>, <<5, 5>>}

\* the requests of EvalRequests for the lesson, and a student's requests
\* for a lesson that does not exist and with a status outside the enum
NextEval ==
  \/ \E rq \in EvalRequests, force \in BOOLEAN :
       MarkAttendance(rq[1], 1, rq[2], "present", force)
  \/ MarkAttendance(4, 2, 4, "present", FALSE)
  \/ MarkAttendance(4, 1, 4, "late", FALSE)

SpecEval == InitEval /\ [][NextEval]_vars

\* One lesson created long ago, Sunday 09:00-10:00 (lesson id 2 does not
\* exist); the clock starts at 09:15 of the first day.
InitSys ==
  /\ now = SysStart
  /\ users = InitUsers
  /\ lessons = (1 :> LessonRow(1, 1, 2, 0, 540, 60, 30, TRUE, 0))
  /\ attendance = {}
  /\ nextAttendanceId = 1
  /\ last = NoRequest
  /\ procs = IdleProcs
  /\ InitTables

Init == InitSys

Next ==
  \/ \E t \in SysInstants : Tick(t)
  \/ \E actor \in DOMAIN InitUsers, lessonId \in {1, 2}, studentId \in StudentIds,
        status \in Statuses, force \in BOOLEAN :
       MarkAttendance(actor, lessonId, studentId, status, force)

Spec == Init /\ [][Next]_vars

----------------------------------------------------------------------------
\* Concurrent handlers: storage.markAttendance awaits its select before it
\* writes, so another request can run between the two.

\* The handler up to the end of the select of markAttendance.
BeginMark(p, actor, lessonId, studentId, status, force) ==
  LET data == [lessonId |-> lessonId, studentId |-> studentId, status |-> status]
      resp == AttendanceChecks(users[actor], data, force, now)
  IN  /\ procs[p].pc # "selected"
      /\ actor \in DOMAIN users
      /\ procs' = [procs EXCEPT ![p] =
           IF resp.code # 0
             THEN [pc |-> "done"] @@ Request(actor, data, force, now) @@ resp
                  @@ [existing |-> {}]
             ELSE [pc |-> "selected"] @@ Request(actor, data, force, now) @@ resp
                  @@ [existing |-> {r.id : r \in ExistingRecords(attendance, data)}]]
      /\ UNCHANGED <<now, users, lessons, attendance, nextAttendanceId, last, tables>>

\* The write of markAttendance: the update of the first selected row, or the
\* insert, which the unique index can refuse; the error is rethrown and the
\* request is answered 500.
FinishMark(p) ==
  LET q == procs[p]
      data == [lessonId |-> q.lessonId, studentId |-> q.studentId, status |-> q.status]
  IN  /\ q.pc = "selected"
      /\ IF q.existing # {}
           THEN /\ \E keepId \in q.existing :
                     attendance' = UpdateRecord(attendance, q.existing, keepId, data, now)
                /\ UNCHANGED nextAttendanceId
                /\ procs' = [procs EXCEPT ![p] = [q EXCEPT !.pc = "done", !.code = 201]]
           ELSE /\ nextAttendanceId' = nextAttendanceId + 1
                /\ IF UniqueViolation(attendance, data)
                     THEN /\ UNCHANGED attendance
                          /\ procs' = [procs EXCEPT ![p] =
                               [q EXCEPT !.pc = "done", !.code = 500, !.message = MsgUnique]]
                     ELSE /\ attendance' = attendance \cup
                               {NewRecord(nextAttendanceId, data, now)}
                          /\ procs' = [procs EXCEPT ![p] =
                               [q EXCEPT !.pc = "done", !.code = 201]]
      /\ UNCHANGED <<now, users, lessons, last, tables>>

NextConc ==
  \/ \E p \in Procs, actor \in {AdminId, 4}, studentId \in StudentIds,
        status \in Statuses :
       BeginMark(p, actor, 1, studentId, status, FALSE)
  \/ \E p \in Procs : FinishMark(p)

SpecConc == InitSys /\ [][NextConc]_vars

----------------------------------------------------------------------------
\* Lesson management, deletions, data clear, backup and restore

MaxLessons == 1      \* SpecAdmin: lessons created over a run
MaxMarks == 1        \* SpecAdmin: attendance rows inserted over a run

\* the instants the clock of SpecAdmin shows: 09:15 and 09:45 of the first
\* day, and 09:15 of the same weekday of the following weeks
AdminInstants ==
  {SysStart, SysStart + 30} \cup {SysStart + 7 * MinutesPerDay * w : w \in 1..MaxWeek}

InstantDuration == 60         \* durationMinutes of an instant lesson by default
InstantLessonCount == 0       \* lessonCount the instant-lesson handler stores

ConfirmClear == "yes-delete-all-data"
ConfirmRestore == "yes-restore-data"

MsgPattern == "Invalid recurring pattern. Must include daysOfWeek array and numberOfWeeks."
MsgDuplicate == "A lesson with the same day, subject, and start time already exists for this class and teacher"
MsgUpdateOwn == "You can only update your own lessons"
MsgDeleteOwn == "You can only delete your own lessons"
MsgInstantRole == "Unauthorized. Only admins and teachers can create instant lessons"
MsgInstantDept == "You can only create instant lessons for classes in your departments"
MsgClassNotFound == "Class not found"
MsgStudentNotFound == "Student not found"
MsgConfirmClear == "Please confirm data deletion by setting 'confirm' to 'yes-delete-all-data'"
MsgConfirmRestore == "Please confirm restore by setting 'confirm' to 'yes-restore-data'"
MsgRestoreFailed == "Error restoring from backup"
MsgBackupNotFound == "Backup file not found"
MsgCleared == "All data cleared successfully. Admin password reset to 'admin'."
MsgBackupCreated == "Backup created successfully"
MsgRestored == "System successfully restored from backup"

\* the response of a request other than mark-attendance
Served(code, message) == [NoRequest EXCEPT !.code = code, !.message = message]

EmptyTable == [i \in {} |-> 0]

Rows(table) == {table[i] : i \in DOMAIN table}

Without(table, ids) == [i \in DOMAIN table \ ids |-> table[i]]

\* request bodies of POST /api/lessons and PUT /api/lessons/:id: a Sunday
\* 09:00 lesson of class 1 with a five-minute attendance window, and the same
\* lesson with attendanceWindowMinutes 0
GoodBody ==
  [subject |-> "Math", classId |-> 1, teacherId |-> 2, dayOfWeek |-> 0,
   startTimeMinutes |-> 540, durationMinutes |-> 60, lessonCount |-> 1,
   attendanceWindowMinutes |-> 5, isActive |-> TRUE]

ZeroWindowBody == [GoodBody EXCEPT !.attendanceWindowMinutes = 0]

LessonBodies == {GoodBody, ZeroWindowBody}

\* a body with dayOfWeek 7 and startTimeMinutes 1500 (25:00)
OutOfRangeBody == [GoodBody EXCEPT !.dayOfWeek = 7, !.startTimeMinutes = 1500]

\* the body of a PUT that also carries a createdAt of one week later
RedatedBody ==
  [createdAt |-> SysStart + 7 * MinutesPerDay] @@
    [GoodBody EXCEPT !.subject = "Physics"]

\* the body of a PUT that names teacher 3 as the lesson's teacher
ReassignBody == [GoodBody EXCEPT !.teacherId = 3]

\* attendanceWindowMinutes of the body of POST /api/instant-lesson: absent,
\* or a string of digits
PutBodies == {ReassignBody, RedatedBody}

InstantWindowInputs == {"", "0", "5"}

Truthy(s) == s # ""

ParseInt(s) == CASE s = "0" -> 0 [] s = "5" -> 5 [] OTHER -> NoTime

\* storage.createLesson: the insert; id comes from the sequence, created_at
\* from the column default
CreateLesson(id, lessonData, t) == lessonData @@ [id |-> id, createdAt |-> t]

\* storage.getAllLessons(classId, teacherId)
GetAllLessons(classId, teacherId) ==
  {l \in Rows(lessons) : l.classId = classId /\ l.teacherId = teacherId}

\* POST /api/lessons, behind isTeacher: a teacher's body is stored as sent
\* with teacherId replaced, an admin's body is parsed by insertLessonSchema,
\* which checks the types of the fields only
\* insertLessonSchema omits id and createdAt: parsing a body drops both keys
insertLessonSchemaMutant(body) == body

insertLessonSchema(body) ==
  [k \in DOMAIN body \ {"id", "createdAt"} |-> body[k]]

PostLesson(actor, body) ==
  LET user == users[actor]
      lessonData == IF user.role = "teacher"
                      THEN [body EXCEPT !.teacherId = user.id]
                      ELSE insertLessonSchema(body)
      potentialDuplicate ==
        \E e \in GetAllLessons(lessonData.classId, lessonData.teacherId) :
          /\ e.dayOfWeek = lessonData.dayOfWeek
          /\ e.subject = lessonData.subject
          /\ e.startTimeMinutes = lessonData.startTimeMinutes
  IN  /\ actor \in DOMAIN users
      /\ user.role \in {"teacher", "admin"}
      /\ nextLessonId <= MaxLessons
      /\ IF potentialDuplicate
           THEN /\ last' = Served(400, MsgDuplicate)
                /\ UNCHANGED <<lessons, nextLessonId, createdBy>>
           ELSE /\ lessons' = lessons @@
                      (nextLessonId :> CreateLesson(nextLessonId, lessonData, now))
                /\ nextLessonId' = nextLessonId + 1
                /\ createdBy' = createdBy @@ (nextLessonId :> "regular")
                /\ last' = Served(201, "")
      /\ UNCHANGED <<now, users, attendance, nextAttendanceId, procs, classes,
                     teacherDepartments, backup,
                 departments, levels, systemSettings>>

\* POST /api/lessons/recurring: one createLesson per entry of the pattern's
\* daysOfWeek array, in order, with no duplicate check
\* the recurring pattern is refused when daysOfWeek or numberOfWeeks is
\* missing or falsy (a pattern that is absent has neither key)
InvalidPatternMutant(recurringPattern) == FALSE

InvalidPattern(recurringPattern) ==
  \/ "daysOfWeek" \notin DOMAIN recurringPattern
  \/ "numberOfWeeks" \notin DOMAIN recurringPattern
  \/ recurringPattern.numberOfWeeks = 0

\* the days the loop runs over
PatternDays(recurringPattern) ==
  IF "daysOfWeek" \in DOMAIN recurringPattern
    THEN recurringPattern.daysOfWeek ELSE <<>>

PostRecurringLessons(actor, body, recurringPattern) ==
  LET user == users[actor]
      lessonData == IF user.role = "teacher"
                      THEN [body EXCEPT !.teacherId = user.id]
                      ELSE insertLessonSchema(body)
      daysOfWeek == PatternDays(recurringPattern)
      n == Len(daysOfWeek)
      ids == nextLessonId..(nextLessonId + n - 1)
  IN  /\ actor \in DOMAIN users
      /\ user.role \in {"teacher", "admin"}
      /\ nextLessonId <= MaxLessons
      /\ IF InvalidPattern(recurringPattern)
           THEN /\ last' = Served(400, MsgPattern)
                /\ UNCHANGED <<lessons, nextLessonId, createdBy>>
           ELSE /\ lessons' = lessons @@
                     [id \in ids |->
                        CreateLesson(id,
                          [lessonData EXCEPT
                             !.dayOfWeek = daysOfWeek[id - nextLessonId + 1]],
                          now)]
                /\ nextLessonId' = nextLessonId + n
                /\ createdBy' = createdBy @@ [id \in ids |-> "recurring"]
                /\ last' = Served(201, "")
      /\ UNCHANGED <<now, users, attendance, nextAttendanceId, procs, classes,
                     teacherDepartments, backup,
                 departments, levels, systemSettings>>

\* PUT /api/lessons/:id: a teacher must own the lesson; the body is parsed by
\* insertLessonSchema and storage.updateLesson sets its fields
PutLesson(actor, id, body) ==
  LET user == users[actor] IN
  /\ actor \in DOMAIN users
  /\ user.role \in {"teacher", "admin"}
  /\ IF user.role = "teacher" /\ (id \notin DOMAIN lessons \/ lessons[id].teacherId # user.id)
       THEN /\ last' = Served(403, MsgUpdateOwn)
            /\ UNCHANGED lessons
       ELSE IF id \notin DOMAIN lessons
         THEN /\ last' = Served(404, MsgNotFound)
              /\ UNCHANGED lessons
         ELSE /\ lessons' = [lessons EXCEPT
                             ![id] = insertLessonSchema(body) @@ lessons[id]]
              /\ last' = Served(200, "")
  /\ UNCHANGED <<now, users, attendance, nextAttendanceId, procs, tables>>

\* storage.deleteLesson: the row of the lessons table is deleted, and nothing
\* else
DeleteLessonRowsMutant(att, id) == {r \in att : r.lessonId # id}

DeleteLessonRows(att, id) == att

\* DELETE /api/lessons/:id: a teacher must own the lesson; deleteLesson
\* reports true whether or not a row was deleted
DeleteLesson(actor, id) ==
  LET user == users[actor] IN
  /\ actor \in DOMAIN users
  /\ user.role \in {"teacher", "admin"}
  /\ IF user.role = "teacher" /\ (id \notin DOMAIN lessons \/ lessons[id].teacherId # user.id)
       THEN /\ last' = Served(403, MsgDeleteOwn)
            /\ UNCHANGED <<lessons, attendance>>
       ELSE /\ lessons' = Without(lessons, {id})
            /\ attendance' = DeleteLessonRows(attendance, id)
            /\ last' = Served(204, "")
  /\ UNCHANGED <<now, users, nextAttendanceId, procs, tables>>

\* POST /api/instant-lesson: a lesson of the current weekday and minute,
\* taught by the requester
PostInstantLesson(actor, classId, attendanceWindowMinutes) ==
  LET user == users[actor]
      lessonData ==
        [subject |-> "Math", classId |-> classId, teacherId |-> user.id,
         dayOfWeek |-> GetDay(now), startTimeMinutes |-> now % MinutesPerDay,
         durationMinutes |-> InstantDuration,
         attendanceWindowMinutes |->
           IF Truthy(attendanceWindowMinutes) THEN ParseInt(attendanceWindowMinutes)
           ELSE DefaultAttendanceWindow,
         isActive |-> TRUE, lessonCount |-> InstantLessonCount]
      code == IF user.role \notin {"admin", "teacher"} THEN 403
              ELSE IF user.role = "teacher" /\ classId \notin DOMAIN classes THEN 404
              ELSE IF user.role = "teacher" /\
                      classes[classId].departmentId \notin
                        {td.departmentId : td \in {x \in teacherDepartments : x.teacherId = user.id}}
                THEN 403
              ELSE 201
      message == IF user.role \notin {"admin", "teacher"} THEN MsgInstantRole
                 ELSE IF code = 404 THEN MsgClassNotFound
                 ELSE IF code = 403 THEN MsgInstantDept ELSE ""
  IN  /\ actor \in DOMAIN users
      /\ nextLessonId <= MaxLessons
      /\ last' = Served(code, message)
      /\ IF code = 201
           THEN /\ lessons' = lessons @@
                      (nextLessonId :> CreateLesson(nextLessonId, lessonData, now))
                /\ nextLessonId' = nextLessonId + 1
                /\ createdBy' = createdBy @@ (nextLessonId :> "instant")
           ELSE UNCHANGED <<lessons, nextLessonId, createdBy>>
      /\ UNCHANGED <<now, users, attendance, nextAttendanceId, procs, classes,
                     teacherDepartments, backup,
                 departments, levels, systemSettings>>

\* DatabaseStorage.deleteUser: the lessons the user teaches go with their
\* attendance rows, then the user's departments and the user
DeleteUser(id) ==
  LET taught == {l \in DOMAIN lessons : lessons[l].teacherId = id} IN
  /\ attendance' = {r \in attendance : r.lessonId \notin taught}
  /\ lessons' = Without(lessons, taught)
  /\ teacherDepartments' = {td \in teacherDepartments : td.teacherId # id}
  /\ users' = Without(users, {id})

\* DELETE /api/teachers/:id, behind isAdmin
DeleteTeacher(actor, id) ==
  /\ actor \in DOMAIN users
  /\ users[actor].role = "admin"
  /\ DeleteUser(id)
  /\ last' = Served(204, "")
  /\ UNCHANGED <<now, nextAttendanceId, procs, nextLessonId, classes, backup, createdBy,
                 departments, levels, systemSettings>>

\* DELETE /api/students/:id, behind isAdmin: 404 unless the user is a student
DeleteStudent(actor, id) ==
  /\ actor \in DOMAIN users
  /\ users[actor].role = "admin"
  /\ IF id \notin DOMAIN users \/ users[id].role # "student"
       THEN /\ last' = Served(404, MsgStudentNotFound)
            /\ UNCHANGED <<users, lessons, attendance, teacherDepartments>>
       ELSE /\ DeleteUser(id)
            /\ last' = Served(204, "")
  /\ UNCHANGED <<now, nextAttendanceId, procs, nextLessonId, classes, backup, createdBy,
                 departments, levels, systemSettings>>

\* DELETE /api/classes/:id, behind isAdmin, with DatabaseStorage.deleteClass:
\* the lessons of the class go with their attendance rows, its students
\* lose their class
DeleteClass(actor, id) ==
  LET held == {l \in DOMAIN lessons : lessons[l].classId = id} IN
  /\ actor \in DOMAIN users
  /\ users[actor].role = "admin"
  /\ attendance' = {r \in attendance : r.lessonId \notin held}
  /\ lessons' = Without(lessons, held)
  /\ users' = [u \in DOMAIN users |->
                 IF users[u].classId = id THEN [users[u] EXCEPT !.classId = NoClass]
                 ELSE users[u]]
  /\ classes' = Without(classes, {id})
  /\ last' = Served(204, "")
  /\ UNCHANGED <<now, nextAttendanceId, procs, nextLessonId, teacherDepartments,
                 backup, createdBy,
                 departments, levels, systemSettings>>

\* POST /api/system/clear-data, behind isAdmin, with clearAllData: every
\* table but system settings is emptied, the admin accounts stay
\* the confirmation test of POST /api/system/clear-data
ClearDeniedMutant(confirm) == FALSE

ClearDenied(confirm) == confirm # ConfirmClear

ClearData(actor, confirm) ==
  /\ actor \in DOMAIN users
  /\ users[actor].role = "admin"
  /\ IF ClearDenied(confirm)
       THEN /\ last' = Served(400, MsgConfirmClear)
            /\ UNCHANGED <<users, lessons, attendance, classes, teacherDepartments,
                           departments, levels>>
       ELSE /\ attendance' = {}
            /\ lessons' = EmptyTable
            /\ teacherDepartments' = {}
            /\ classes' = EmptyTable
            /\ departments' = EmptyTable
            /\ levels' = EmptyTable
            /\ users' = [u \in {x \in DOMAIN users : users[x].role = "admin"} |->
                           [users[u] EXCEPT !.password = DefaultPassword]]
            /\ last' = Served(200, MsgCleared)
  /\ UNCHANGED <<now, nextAttendanceId, procs, nextLessonId, backup, createdBy,
                 systemSettings>>

\* createBackup: the tables as they are, written to the backup file
BackupData ==
  [written |-> TRUE, users |-> users, classes |-> classes, lessons |-> lessons,
   attendance |-> attendance, teacherDepartments |-> teacherDepartments,
   departments |-> departments, levels |-> levels,
   systemSettings |-> systemSettings]

\* POST /api/system/backups, behind isAdmin
PostBackup(actor) ==
  /\ actor \in DOMAIN users
  /\ users[actor].role = "admin"
  /\ backup' = BackupData
  /\ last' = Served(200, MsgBackupCreated)
  /\ UNCHANGED <<now, users, lessons, attendance, nextAttendanceId, procs,
                 nextLessonId, classes, teacherDepartments, createdBy,
                 departments, levels, systemSettings>>

\* the rows a backup holds besides admin accounts
BackupRows(b) ==
  Cardinality(DOMAIN b.classes) + Cardinality(DOMAIN b.lessons) +
  Cardinality(b.attendance) + Cardinality(b.teacherDepartments) +
  Cardinality({u \in DOMAIN b.users : b.users[u].role # "admin"}) +
  Cardinality(DOMAIN b.departments) + Cardinality(DOMAIN b.levels)

\* POST /api/system/backups/restore, behind isAdmin, with restoreFromBackup
\* for the file PostBackup wrote last (the pre-restore backup the route
\* writes first goes to a file of its own): in one transaction the tables are
\* emptied (the admin accounts stay) and the rows of the backup are inserted. The
\* rows come from JSON, their timestamps as strings; when the driver refuses
\* one, the transaction is rolled back and the request reports the failure.
PostRestore(actor, confirm, accepted) ==
  LET admins == {u \in DOMAIN users : users[u].role = "admin"}
      restored == {u \in DOMAIN backup.users : backup.users[u].role # "admin"}
  IN  /\ actor \in DOMAIN users
      /\ users[actor].role = "admin"
      /\ accepted \/ (backup.written /\ BackupRows(backup) > 0)
      /\ IF confirm # ConfirmRestore
           THEN /\ last' = Served(400, MsgConfirmRestore)
                /\ UNCHANGED <<users, lessons, attendance, classes,
                               teacherDepartments, departments, levels,
                               systemSettings>>
           ELSE IF ~backup.written
             THEN /\ last' = Served(200, MsgBackupNotFound)
                  /\ UNCHANGED <<users, lessons, attendance, classes,
                                 teacherDepartments, departments, levels,
                                 systemSettings>>
           ELSE IF ~accepted
             THEN /\ last' = Served(200, MsgRestoreFailed)
                  /\ UNCHANGED <<users, lessons, attendance, classes,
                                 teacherDepartments, departments, levels,
                                 systemSettings>>
             ELSE /\ attendance' = backup.attendance
                  /\ lessons' = backup.lessons
                  /\ teacherDepartments' = backup.teacherDepartments
                  /\ classes' = backup.classes
                  /\ departments' = backup.departments
                  /\ levels' = backup.levels
                  /\ systemSettings' =
                       [systemSettings EXCEPT
                          !.defaultAttendanceWindow =
                             backup.systemSettings.defaultAttendanceWindow,
                          !.schoolName = backup.systemSettings.schoolName]
                  /\ users' = [u \in admins \cup restored |->
                                 IF u \in admins THEN users[u] ELSE backup.users[u]]
                  /\ last' = Served(200, MsgRestored)
      /\ UNCHANGED <<now, nextAttendanceId, procs, nextLessonId, backup, createdBy>>

\* PUT /api/system-settings, behind isAdmin, with updateSystemSettings: the
\* fields of the body replace those of the row
PutSystemSettings(actor, settingsData) ==
  /\ actor \in DOMAIN users
  /\ users[actor].role = "admin"
  /\ systemSettings' = settingsData @@ systemSettings
  /\ last' = Served(200, "")
  /\ UNCHANGED <<now, users, lessons, attendance, nextAttendanceId, procs,
                 nextLessonId, classes, teacherDepartments, backup, createdBy,
                 departments, levels>>

\* A system with its users and classes and no lesson yet; the clock starts
\* at 09:15 of the first day.
InitAdmin ==
  /\ now = SysStart
  /\ users = InitUsers
  /\ lessons = EmptyTable
  /\ attendance = {}
  /\ nextAttendanceId = 1
  /\ last = NoRequest
  /\ procs = IdleProcs
  /\ nextLessonId = 1
  /\ classes = InitClasses
  /\ teacherDepartments = InitTeacherDepartments
  /\ backup = NoBackup
  /\ createdBy = EmptyTable
  /\ departments = InitDepartments
  /\ levels = InitLevels
  /\ systemSettings = InitSystemSettings

LessonIds == 1..MaxLessons

\* the daysOfWeek arrays of the recurring requests
RecurringDays == {<<0>>, <<0, 0>>, <<0, 1>>}
WeekCounts == {1, 2}
RecurringPatterns ==
  {[daysOfWeek |-> d, numberOfWeeks |-> n] : d \in RecurringDays, n \in WeekCounts}
    \cup {[daysOfWeek |-> <<0>>], [numberOfWeeks |-> 1],
          [daysOfWeek |-> <<0>>, numberOfWeeks |-> 0]}

NextAdmin ==
  \/ \E t \in AdminInstants : Tick(t)
  \/ \E actor \in {AdminId, 2}, body \in LessonBodies : PostLesson(actor, body)
  \/ PostRecurringLessons(2, GoodBody, [daysOfWeek |-> <<0>>, numberOfWeeks |-> 1])
  \/ \E actor \in TeacherIds, id \in LessonIds, body \in LessonBodies :
       PutLesson(actor, id, body)
  \/ \E actor \in TeacherIds, id \in LessonIds : DeleteLesson(actor, id)
  \/ \E actor \in {2, 3, 4}, aw \in InstantWindowInputs :
       PostInstantLesson(actor, 1, aw)
  \/ \E actor \in {AdminId, 4}, id \in LessonIds :
       /\ nextAttendanceId <= MaxMarks
       /\ MarkAttendance(actor, id, 4, "present", FALSE)

SpecAdmin == InitAdmin /\ [][NextAdmin]_vars

\* Lesson requests of teachers and the admin: single and recurring creation
\* and update, with bodies that are out of range, name another teacher or
\* carry a createdAt, beside the clock and the marks that read the lessons.
NextLessons ==
  \/ \E t \in AdminInstants : Tick(t)
  \/ \E actor \in {AdminId, 2}, body \in {GoodBody, OutOfRangeBody} :
       PostLesson(actor, body)
  \/ \E actor \in {AdminId, 2}, body \in {GoodBody, ReassignBody},
        pattern \in RecurringPatterns :
       PostRecurringLessons(actor, body, pattern)
  \/ \E actor \in TeacherIds, id \in LessonIds, body \in PutBodies :
       PutLesson(actor, id, body)
  \/ \E actor \in {AdminId, 2, 3, 4}, id \in LessonIds :
       /\ nextAttendanceId <= MaxMarks
       /\ MarkAttendance(actor, id, 4, "present", FALSE)

SpecLessons == InitAdmin /\ [][NextLessons]_vars

\* Every operation that reaches the tables, each with one request: the
\* teacher's lesson requests, the admin's deletions, data clear, backup and
\* restore, and the marks of the admin for student 4.
\* the body of a settings update: a new school name, notifications off
SettingsBody == [schoolName |-> "Hill School", emailNotifications |-> FALSE]

NextData ==
  \/ PostLesson(2, GoodBody)
  \/ PostRecurringLessons(2, GoodBody, [daysOfWeek |-> <<0>>, numberOfWeeks |-> 1])
  \/ PostInstantLesson(2, 1, "")
  \/ \E id \in LessonIds : PutLesson(2, id, ZeroWindowBody)
  \/ \E id \in LessonIds : DeleteLesson(2, id)
  \/ DeleteTeacher(AdminId, 2)
  \/ DeleteStudent(AdminId, 4)
  \/ DeleteClass(AdminId, 1)
  \/ \E confirm \in {ConfirmClear, ""} : ClearData(AdminId, confirm)
  \/ PostBackup(AdminId)
  \/ \E confirm \in {ConfirmRestore, ""}, accepted \in BOOLEAN :
       PostRestore(AdminId, confirm, accepted)
  \/ \E id \in LessonIds :
       /\ nextAttendanceId <= MaxMarks
       /\ MarkAttendance(AdminId, id, 4, "present", FALSE)

SpecData == InitAdmin /\ [][NextData]_vars

\* Data clear beside the requests that fill the tables it empties and the
\* settings update, backup and restore that write the row it leaves alone.
NextClear ==
  \/ PostLesson(2, GoodBody)
  \/ \E id \in LessonIds :
       /\ nextAttendanceId <= MaxMarks
       /\ MarkAttendance(AdminId, id, 4, "present", FALSE)
  \/ \E confirm \in {ConfirmClear, ""} : ClearData(AdminId, confirm)
  \/ PutSystemSettings(AdminId, SettingsBody)
  \/ PostBackup(AdminId)
  \/ \E accepted \in BOOLEAN : PostRestore(AdminId, ConfirmRestore, accepted)

SpecClear == InitAdmin /\ [][NextClear]_vars

----------------------------------------------------------------------------
\* Vocabulary of the properties

IsStudent(id) == id \in DOMAIN users /\ users[id].role = "student"
IsPrivileged(id) == id \in DOMAIN users /\ users[id].role \in {"teacher", "admin"}

\* the request was a well-formed one for an existing lesson
ForLesson(r) ==
  r.actor # 0 /\ r.status \in Statuses /\ r.lessonId \in DOMAIN lessons

\* a student asking for their own attendance in a lesson of their own class
OwnRequest(r) ==
  /\ ForLesson(r)
  /\ IsStudent(r.actor)
  /\ r.studentId = r.actor
  /\ users[r.actor].classId = lessons[r.lessonId].classId

RowsOf(att, lessonId, studentId) ==
  {x \in att : x.lessonId = lessonId /\ x.studentId = studentId}

\* the request left a row of its pair with its status and its time
RecordedIn(att, r) ==
  \E x \in RowsOf(att, r.lessonId, r.studentId) :
    x.status = r.status /\ x.markedAt = r.at

Recorded(r) == RecordedIn(attendance, r)

\* The window as the specification states it: the occurrence is the most
\* recent day with the lesson's weekday, at the lesson's start time.
OccurrenceStart(lesson, t) ==
  ((t \div MinutesPerDay) - ((GetDay(t) - lesson.dayOfWeek + 7) % 7)) * MinutesPerDay
    + lesson.startTimeMinutes

EvaluatedInstant(lesson, t) == t - lesson.createdAt < 24 * 60

WindowStart(lesson, t) ==
  IF EvaluatedInstant(lesson, t) THEN lesson.createdAt
  ELSE OccurrenceStart(lesson, t) - 10

WindowEnd(lesson, t) ==
  IF EvaluatedInstant(lesson, t)
    THEN lesson.createdAt + lesson.attendanceWindowMinutes
    ELSE OccurrenceStart(lesson, t) + lesson.durationMinutes

InWindow(lesson, t) == WindowStart(lesson, t) <= t /\ t <= WindowEnd(lesson, t)

----------------------------------------------------------------------------
\* C1: a student's unforced request for their own attendance in an active
\* lesson of their own class, made at any instant of the window, is answered
\* 201 and leaves the record, also when that instant falls on another
\* calendar day than the lesson's weekday.
C1_PermittedThroughoutWindow ==
  (/\ OwnRequest(last)
   /\ ~last.force
   /\ lessons[last.lessonId].isActive
   /\ InWindow(lessons[last.lessonId], last.at))
  => (last.code = 201 /\ Recorded(last))

\* C2: a student's unforced request for an active lesson outside the window
\* is denied as window-closed with opensAt, closesAt, currentTime and
\* isInstantLesson of the resolved occurrence, on every weekday, and writes
\* no row.
C2_WindowClosedPayload ==
  [][(/\ last' # last
      /\ ForLesson(last')
      /\ IsStudent(last'.actor)
      /\ ~last'.force
      /\ lessons[last'.lessonId].isActive
      /\ ~InWindow(lessons[last'.lessonId], last'.at))
     => (/\ last'.code = 403
         /\ last'.message = MsgWindow
         /\ last'.opensAt = WindowStart(lessons[last'.lessonId], last'.at)
         /\ last'.closesAt = WindowEnd(lessons[last'.lessonId], last'.at)
         /\ last'.currentTime = last'.at
         /\ last'.isInstantLesson = EvaluatedInstant(lessons[last'.lessonId], last'.at)
         /\ attendance' = attendance)]_vars

\* C3: a student's request for their own attendance in an inactive lesson of
\* their own class is permitted at every time, with or without force.
C3_InactiveAlwaysPermitted ==
  (OwnRequest(last) /\ ~lessons[last.lessonId].isActive)
  => (last.code = 201 /\ Recorded(last))

\* C4 as stated: a teacher or an admin marking any existing lesson always
\* succeeds.
C4_PrivilegedAlwaysSucceeds ==
  (ForLesson(last) /\ IsPrivileged(last.actor))
  => (last.code = 201 /\ Recorded(last))

\* C4 amended: an admin, and the teacher the lesson belongs to, always
\* succeed, inside or outside the window, with or without force, whatever
\* isActive and dayOfWeek are; any other teacher is refused with 403.
C4_AdminAndOwnTeacherSucceed ==
  [][(last' # last /\ ForLesson(last') /\ IsPrivileged(last'.actor))
     => IF users[last'.actor].role = "admin"
           \/ lessons[last'.lessonId].teacherId = last'.actor
          THEN last'.code = 201 /\ RecordedIn(attendance', last')
          ELSE /\ last'.code = 403
               /\ last'.message = MsgTeacher
               /\ attendance' = attendance]_vars

\* the lesson's own teacher has marked outside the window without force
C4_Witness ==
  /\ ForLesson(last)
  /\ users[last.actor].role = "teacher"
  /\ ~last.force
  /\ ~InWindow(lessons[last.lessonId], last.at)
  /\ lessons[last.lessonId].dayOfWeek # GetDay(last.at)
  /\ last.code = 201
  /\ Recorded(last)

\* C5: a student's unforced request for an active, non-instant lesson whose
\* dayOfWeek is the weekday after today's is denied as a future lesson and
\* writes no row.
C5_TomorrowIsFuture ==
  [][(/\ last' # last
      /\ ForLesson(last')
      /\ IsStudent(last'.actor)
      /\ ~last'.force
      /\ lessons[last'.lessonId].isActive
      /\ ~EvaluatedInstant(lessons[last'.lessonId], last'.at)
      /\ lessons[last'.lessonId].dayOfWeek = (GetDay(last'.at) + 1) % 7)
     => (/\ last'.code = 403
         /\ last'.message = MsgFuture
         /\ attendance' = attendance)]_vars

\* a student was refused a lesson of tomorrow's weekday on a Saturday
C5_Witness ==
  /\ ForLesson(last)
  /\ IsStudent(last.actor)
  /\ ~last.force
  /\ lessons[last.lessonId].isActive
  /\ ~EvaluatedInstant(lessons[last.lessonId], last.at)
  /\ GetDay(last.at) = 6
  /\ lessons[last.lessonId].dayOfWeek = 0
  /\ last.message = MsgFuture

\* C6: a student's forced request for their own attendance in a lesson of
\* their own class is never denied as window-closed or as a future lesson.
C6_ForcePermitsStudent ==
  (OwnRequest(last) /\ last.force)
  => (last.message \notin {MsgWindow, MsgFuture} /\ last.code = 201)

\* C10: for a lesson evaluated as non-instant the window opens 10 minutes
\* before the resolved occurrence start and closes durationMinutes after it,
\* so it is durationMinutes + 10 long, also across midnight at either end;
\* the bounds sent with a denial are these.
C10_RegularWindowLength ==
  \A id \in DOMAIN lessons :
    LET lesson == lessons[id] IN
    ~IsInstantLesson(lesson, now) =>
      /\ PreClassWindow(lesson, now) = OccurrenceStart(lesson, now) - 10
      /\ LessonEndTime(lesson, now) = OccurrenceStart(lesson, now) + lesson.durationMinutes
      /\ LessonEndTime(lesson, now) - PreClassWindow(lesson, now)
           = lesson.durationMinutes + 10
      /\ (last.message = MsgWindow /\ last.lessonId = id /\ last.at = now)
           => /\ last.opensAt = OccurrenceStart(lesson, now) - 10
              /\ last.closesAt - last.opensAt = lesson.durationMinutes + 10

\* a denial carried a non-instant window whose end lies on the day after its
\* occurrence
C10_Witness ==
  /\ last.message = MsgWindow
  /\ ~last.isInstantLesson
  /\ last.lessonId \in DOMAIN lessons
  /\ lessons[last.lessonId].startTimeMinutes + lessons[last.lessonId].durationMinutes
       > MinutesPerDay
  /\ last.closesAt \div MinutesPerDay = (last.opensAt \div MinutesPerDay) + 1

\* C7: under every interleaving of concurrent mark requests there is at most
\* one attendance row per (lessonId, studentId).
C7_OneRowPerPair ==
  \A x \in attendance, y \in attendance :
    (x.lessonId = y.lessonId /\ x.studentId = y.studentId) => x = y

\* two requests selected no row for the same pair; one has inserted its row
\* and the other is about to insert
C7_Witness ==
  \E p \in Procs, q \in Procs :
    /\ p # q
    /\ procs[p].pc = "done" /\ procs[p].code = 201 /\ procs[p].existing = {}
    /\ procs[q].pc = "selected" /\ procs[q].existing = {}
    /\ procs[q].lessonId = procs[p].lessonId
    /\ procs[q].studentId = procs[p].studentId
    /\ RowsOf(attendance, procs[p].lessonId, procs[p].studentId) # {}

\* C8: no two concurrent mark requests for one pair both find no row and both
\* go on to insert, and no mark request fails on the unique index.
C8_MarkIsAtomic ==
  /\ \A p \in Procs : procs[p].code # 500
  /\ \A p \in Procs, q \in Procs :
       (/\ p # q
        /\ procs[p].lessonId = procs[q].lessonId
        /\ procs[p].studentId = procs[q].studentId
        /\ procs[p].existing = {} /\ procs[q].existing = {})
       => ~(/\ procs[p].pc = "done" /\ procs[p].code \in {201, 500}
            /\ procs[q].pc = "done" /\ procs[q].code \in {201, 500})

\* C9: a successful mark of a pair that already has a row with the same
\* status leaves exactly one row of the pair, with that status and with
\* markedAt equal to the time of this call, also when the earlier mark was
\* made in another week.
C9_SecondMarkKeepsOneRow ==
  [][(/\ last' # last
      /\ last'.code = 201
      /\ \E x \in RowsOf(attendance, last'.lessonId, last'.studentId) :
           x.status = last'.status)
     => (/\ Cardinality(RowsOf(attendance', last'.lessonId, last'.studentId)) = 1
         /\ \A x \in RowsOf(attendance', last'.lessonId, last'.studentId) :
              x.status = last'.status /\ x.markedAt = last'.at)]_vars

\* a student's row created in one week was marked again, with success, in a
\* later week
C9_Witness ==
  /\ last.code = 201
  /\ IsStudent(last.actor)
  /\ \E x \in RowsOf(attendance, last.lessonId, last.studentId) :
       /\ x.status = last.status
       /\ x.markedAt = last.at
       /\ x.createdAt + 7 * MinutesPerDay <= x.markedAt

----------------------------------------------------------------------------
\* C11: whenever a mark request is evaluated for a lesson younger than 24
\* hours, the window the handler computes starts at the lesson's createdAt
\* and is exactly attendanceWindowMinutes long, whatever value of
\* attendanceWindowMinutes the lesson was stored with.
C11_InstantWindowExact ==
  (ForLesson(last) /\ IsInstantLesson(lessons[last.lessonId], last.at)) =>
    LET lesson == lessons[last.lessonId] IN
      /\ PreClassWindow(lesson, last.at) = lesson.createdAt
      /\ LessonEndTime(lesson, last.at) - PreClassWindow(lesson, last.at)
           = lesson.attendanceWindowMinutes

----------------------------------------------------------------------------
\* C12: every attendance row refers to an existing lesson; in particular no
\* row of a lesson remains once the lesson has been deleted through the
\* lesson-delete operation.
C12_NoOrphanAttendance == \A r \in attendance : r.lessonId \in DOMAIN lessons

----------------------------------------------------------------------------
\* C13: every stored lesson has dayOfWeek in 0..6, startTimeMinutes in
\* 0..1439, durationMinutes in 15..480, lessonCount in 1..5 and
\* attendanceWindowMinutes of at least 5.
C13_StoredLessonsInRange ==
  \A id \in DOMAIN lessons :
    /\ lessons[id].dayOfWeek \in 0..6
    /\ lessons[id].startTimeMinutes \in 0..1439
    /\ lessons[id].durationMinutes \in 15..480
    /\ lessons[id].lessonCount \in 1..5
    /\ lessons[id].attendanceWindowMinutes >= 5

----------------------------------------------------------------------------
\* the body of a served mark request, and the answer the handler gives at
\* the same instant to the request that differs in the force flag only
DataOf(r) == [lessonId |-> r.lessonId, studentId |-> r.studentId, status |-> r.status]

WithOtherForce(r) == AttendanceChecks(users[r.actor], DataOf(r), ~r.force, r.at)

----------------------------------------------------------------------------
\* the ids of the rows of an attendance table
IdsOf(att) == {r.id : r \in att}

\* a step that removes an attendance row; one that inserts or changes one
RemovesRows == IdsOf(attendance) \ IdsOf(attendance') # {}
WritesRows == attendance' \ attendance # {}

\* the step serves a mark-attendance request
MarkStep == last'.actor # 0 /\ last' # last

----------------------------------------------------------------------------
\* what the weekday and window tests decide of a response: their denial
\* with its payload, or that the request passed them
WindowStage(r) ==
  IF r.message \in {MsgFuture, MsgWindow}
    THEN [message |-> r.message, opensAt |-> r.opensAt, closesAt |-> r.closesAt,
          currentTime |-> r.currentTime, isInstantLesson |-> r.isInstantLesson]
    ELSE [message |-> "", opensAt |-> NoTime, closesAt |-> NoTime,
          currentTime |-> NoTime, isInstantLesson |-> FALSE]

\* the answer to the request r made in the same state by actor a for
\* student sid
AnswerFor(r, a, sid) ==
  AttendanceChecks(users[a], [DataOf(r) EXCEPT !.studentId = sid], r.force, r.at)

\* C16 (as stated): two mark requests for the same lesson at the same
\* instant by actors of the same role with the same force flag are both
\* permitted or both denied, whoever the actor is and whatever studentId is
\* named.
C16_DecisionIgnoresIdentity ==
  [][(last'.actor # 0 /\ last'.lessonId \in DOMAIN lessons) =>
       \A a \in DOMAIN users, sid \in StudentIds :
         users[a].role = users[last'.actor].role =>
           (AnswerFor(last', a, sid).message = "") = (last'.message = "")]_vars

\* C16 (amended): the weekday and window tests are a function of the
\* lesson, the instant, the role and the force flag: requests that agree on
\* these get the same future-lesson or window-closed denial with the same
\* payload, or all pass these tests; and a request that is not answered 201
\* changes no stored state.
C16_WindowStageIgnoresIdentity ==
  /\ [](ForLesson(last) /\ last.at = now =>
          \A a \in DOMAIN users, sid \in StudentIds :
            users[a].role = users[last.actor].role =>
              WindowStage(AnswerFor(last, a, sid)) = WindowStage(last))
  /\ [][(last'.actor # 0 /\ last'.code # 201) =>
          UNCHANGED <<now, users, lessons, attendance, nextAttendanceId, tables>>]_vars

\* a student denied as outside the window for their own attendance in a
\* lesson of their class, where a student of another class naming another
\* student gets the same denial
C16_Witness ==
  /\ OwnRequest(last)
  /\ last.message = MsgWindow
  /\ \E a \in StudentIds, sid \in StudentIds :
       /\ a # last.actor
       /\ sid # last.studentId
       /\ users[a].classId # users[last.actor].classId
       /\ WindowStage(AnswerFor(last, a, sid)) = WindowStage(last)

----------------------------------------------------------------------------
----------------------------------------------------------------------------
\* the calendar day of an instant
DayOf(t) == t \div MinutesPerDay

\* C18: the occurrence date the handler resolves for a request that gets
\* past the weekday test is today when
\* the lesson's dayOfWeek is today's weekday and otherwise today minus
\* ((currentDayOfWeek - dayOfWeek + 7) mod 7) days; it has the weekday
\* dayOfWeek, lies between 0 and 6 days before today and is never after today.
C18_OccurrenceDateResolved ==
  (ForLesson(last) /\ last.message # MsgFuture) =>
    LET lesson == lessons[last.lessonId]
        today == DayOf(last.at)
        date == DayOf(LessonDate(lesson, last.at))
    IN  /\ lesson.dayOfWeek = GetDay(last.at) => date = today
        /\ lesson.dayOfWeek # GetDay(last.at) =>
             date = today - ((GetDay(last.at) - lesson.dayOfWeek + 7) % 7)
        /\ date % 7 = lesson.dayOfWeek
        /\ today - date \in 0..6
        /\ date <= today
        /\ LessonDate(lesson, last.at) = date * MinutesPerDay + lesson.startTimeMinutes

\* a teacher's mark is recorded for a lesson of another weekday, whose
\* occurrence is resolved some days back
C18_Witness ==
  /\ ForLesson(last)
  /\ IsPrivileged(last.actor)
  /\ last.code = 201
  /\ Recorded(last)
  /\ lessons[last.lessonId].dayOfWeek # GetDay(last.at)
  /\ DayOf(last.at) - DayOf(LessonDate(lessons[last.lessonId], last.at)) = 6

----------------------------------------------------------------------------
\* C19: the request of a student writes the attendance table only when it
\* names the student's own id and the lesson is of the student's class, and
\* then only the row of that pair; every other request of a student leaves
\* the table as it was.
C19_StudentWritesOwnRowOnly ==
  [][(last'.actor # 0 /\ IsStudent(last'.actor)) =>
       LET own == /\ last'.studentId = last'.actor
                  /\ last'.lessonId \in DOMAIN lessons
                  /\ lessons[last'.lessonId].classId = users[last'.actor].classId
       IN  /\ ~own => attendance' = attendance
           /\ \A r \in (attendance \ attendance') \cup (attendance' \ attendance) :
                /\ own
                /\ r.studentId = last'.actor
                /\ r.lessonId = last'.lessonId]_vars

\* a student's request has written their own row, where the request of the
\* other student for that row is refused
C19_Witness ==
  /\ OwnRequest(last)
  /\ last.code = 201
  /\ Recorded(last)
  /\ \E a \in StudentIds :
       /\ a # last.actor
       /\ AnswerFor(last, a, last.studentId).message \in {MsgOwn, MsgWindow}

----------------------------------------------------------------------------
\* C20: a mark request answered with an error leaves the attendance table
\* and its sequence exactly as they were, and the table changes only in a
\* request answered 201; a body with a status outside the enum is answered
\* 400, a request for a missing lesson 404, and a student's request for a
\* lesson of another class 403.
C20_ErrorsLeaveTableUnchanged ==
  [][last'.actor # 0 =>
       /\ last'.code \in {201, 400, 403, 404}
       /\ last'.code # 201 =>
            attendance' = attendance /\ nextAttendanceId' = nextAttendanceId
       /\ attendance' # attendance => last'.code = 201
       /\ last'.status \notin Statuses => last'.code = 400
       /\ (last'.status \in Statuses /\ last'.lessonId \notin DOMAIN lessons) =>
            last'.code = 404
       /\ (/\ last'.status \in Statuses
           /\ last'.lessonId \in DOMAIN lessons
           /\ IsStudent(last'.actor)
           /\ users[last'.actor].classId # lessons[last'.lessonId].classId) =>
            last'.code = 403]_vars

\* a request with an invalid body has been refused and has left the row of
\* an earlier mark untouched
C20_Witness ==
  /\ last.code = 400
  /\ last.message = MsgInvalid
  /\ \E r \in attendance :
       r.lessonId = last.lessonId /\ r.studentId = last.studentId /\ r.status # last.status

----------------------------------------------------------------------------
\* the lessons a step created or changed
Touched == {id \in DOMAIN lessons' : id \notin DOMAIN lessons \/ lessons'[id] # lessons[id]}

\* the step serves a lesson request of teacher t that is not refused
LessonRequestBy(t) ==
  /\ last'.code \in {200, 201, 204}
  /\ \/ \E body \in LessonBodies \cup {OutOfRangeBody} : PostLesson(t, body)
     \/ \E body \in {GoodBody, ReassignBody}, pattern \in RecurringPatterns :
          PostRecurringLessons(t, body, pattern)
     \/ \E id \in LessonIds, body \in PutBodies :
          PutLesson(t, id, body)
     \/ \E id \in LessonIds : DeleteLesson(t, id)
     \/ \E aw \in InstantWindowInputs : PostInstantLesson(t, 1, aw)

\* C21: a teacher updates, deletes and marks only lessons whose teacherId is
\* the teacher's id, and every lesson a teacher's request creates or updates
\* has the teacher's id as teacherId afterwards.
C21_TeacherKeepsOwnLessons ==
  [][\A t \in TeacherIds :
       /\ LessonRequestBy(t) =>
            /\ \A id \in Touched : lessons'[id].teacherId = t
            /\ \A id \in DOMAIN lessons :
                 (id \notin DOMAIN lessons' \/ lessons'[id] # lessons[id]) =>
                   lessons[id].teacherId = t
       /\ (last'.actor = t /\ last'.code = 201) =>
            lessons[last'.lessonId].teacherId = t]_vars

----------------------------------------------------------------------------
\* a lesson whose weekday or start time is outside the calendar
OutOfRange(lesson) ==
  lesson.dayOfWeek \notin 0..6 \/ lesson.startTimeMinutes \notin 0..1439

\* C22: a mark request for a lesson with dayOfWeek outside 0..6 or
\* startTimeMinutes outside 0..1439 is rejected with an error of its own: it
\* is not answered 201, it is not answered with a window, and it writes no row.
C22_OutOfRangeLessonRejected ==
  [][(/\ last'.actor # 0
      /\ last'.status \in Statuses
      /\ last'.lessonId \in DOMAIN lessons
      /\ OutOfRange(lessons[last'.lessonId])) =>
       /\ last'.code \notin {0, 201}
       /\ last'.message \notin {MsgWindow, MsgFuture}
       /\ attendance' = attendance]_vars

----------------------------------------------------------------------------
\* C23: for a fixed lesson row the evaluation mode changes at most once as now
\* advances: the lesson is instant exactly while now < createdAt + 24h, a
\* lesson that is schedule-based in one state is not instant in the next, and
\* no lesson update or mark request changes the createdAt of a lesson.
C23_ModeChangesAtMostOnce ==
  /\ [](\A id \in DOMAIN lessons :
          IsInstantLesson(lessons[id], now) <=>
            now < lessons[id].createdAt + 24 * 60)
  /\ [][\A id \in DOMAIN lessons \cap DOMAIN lessons' :
          /\ lessons'[id].createdAt = lessons[id].createdAt
          /\ ~IsInstantLesson(lessons[id], now) =>
               ~IsInstantLesson(lessons'[id], now')]_vars

\* a lesson updated with the redated body, past its first 24 hours, and then
\* named by a mark request
C23_Witness ==
  \E id \in DOMAIN lessons :
    /\ lessons[id].subject = "Physics"
    /\ ~IsInstantLesson(lessons[id], now)
    /\ last.actor # 0
    /\ last.lessonId = id
    /\ last.at >= lessons[id].createdAt + 24 * 60

----------------------------------------------------------------------------
\* the rows a step adds to the lesson table
CreatedIds == DOMAIN lessons' \ DOMAIN lessons

\* a pattern with a non-empty daysOfWeek list and numberOfWeeks >= 1
WellFormed(pattern) ==
  /\ "daysOfWeek" \in DOMAIN pattern
  /\ "numberOfWeeks" \in DOMAIN pattern
  /\ Len(pattern.daysOfWeek) >= 1
  /\ pattern.numberOfWeeks >= 1

\* one row per entry of the pattern's days, in order, each carrying the
\* fields of base outside the set except, and the day of its entry
OneRowPerDay(base, pattern, except) ==
  /\ Cardinality(CreatedIds) = Len(pattern.daysOfWeek)
  /\ \A i \in 1..Len(pattern.daysOfWeek) :
       LET id == nextLessonId + i - 1 IN
       /\ id \in CreatedIds
       /\ lessons'[id].dayOfWeek = pattern.daysOfWeek[i]
       /\ \A k \in DOMAIN base \ ({"dayOfWeek", "id", "createdAt"} \cup except) :
            lessons'[id][k] = base[k]
  /\ \A id \in DOMAIN lessons : id \in DOMAIN lessons' /\ lessons'[id] = lessons[id]

\* C24 as stated: a recurring request with a non-empty list D and N >= 1
\* creates exactly |D| rows, whatever N is, each equal to the base lesson of
\* the request except for dayOfWeek; a request whose pattern lacks daysOfWeek
\* or numberOfWeeks creates no row.
C24_RecurringRowsEqualBase ==
  [][\A actor \in {AdminId, 2}, body \in {GoodBody, ReassignBody},
        pattern \in RecurringPatterns :
       PostRecurringLessons(actor, body, pattern) =>
         /\ WellFormed(pattern) => OneRowPerDay(body, pattern, {})
         /\ ({"daysOfWeek", "numberOfWeeks"} \ DOMAIN pattern # {}) =>
              lessons' = lessons]_vars

\* C24 amended: the same, except that the rows of a teacher's request carry
\* the requesting teacher's id as teacherId, whatever the base lesson names.
C24_RecurringOneRowPerDay ==
  [][\A actor \in {AdminId, 2}, body \in {GoodBody, ReassignBody},
        pattern \in RecurringPatterns :
       PostRecurringLessons(actor, body, pattern) =>
         /\ WellFormed(pattern) =>
              IF users[actor].role = "teacher"
                THEN /\ OneRowPerDay(body, pattern, {"teacherId"})
                     /\ \A id \in CreatedIds : lessons'[id].teacherId = actor
                ELSE OneRowPerDay(body, pattern, {})
         /\ ({"daysOfWeek", "numberOfWeeks"} \ DOMAIN pattern # {}) =>
              /\ lessons' = lessons
              /\ last'.code = 400]_vars

\* two rows of one recurring request with two days
C24_Witness ==
  \E a, b \in DOMAIN lessons :
    /\ a # b
    /\ createdBy[a] = "recurring" /\ createdBy[b] = "recurring"
    /\ lessons[a].createdAt = lessons[b].createdAt
    /\ lessons[a].dayOfWeek # lessons[b].dayOfWeek
    /\ last.code = 201

----------------------------------------------------------------------------
\* C25: in every reachable state the studentId of every attendance row names
\* an existing user whose role is student.
C25_AttendanceNamesStudent ==
  \A r \in attendance :
    /\ r.studentId \in DOMAIN users
    /\ users[r.studentId].role = "student"

----------------------------------------------------------------------------
\* the fields the duplicate check of POST /api/lessons compares
LessonKey(lesson) ==
  <<lesson.classId, lesson.teacherId, lesson.dayOfWeek, lesson.subject,
    lesson.startTimeMinutes>>

\* C26: after any sequence of lesson creations and updates (single, recurring,
\* instant) no two lesson rows share the same classId, teacherId, dayOfWeek,
\* subject and startTimeMinutes.
C26_NoDuplicateLessons ==
  \A a, b \in DOMAIN lessons :
    a # b => LessonKey(lessons[a]) # LessonKey(lessons[b])

----------------------------------------------------------------------------
\* the rows of a table for the pair a request names
PairRows(att, r) ==
  {x \in att : x.lessonId = r.lessonId /\ x.studentId = r.studentId}

\* C27: a successful mark for (lessonId, studentId) leaves the attendance rows
\* of every other pair, every lesson and every user unchanged; when the pair
\* already has a row, the row kept afterwards has the id, lessonId, studentId
\* and createdAt of a row it had before, and only status and markedAt change.
C27_MarkTouchesOnePair ==
  [][(last'.actor # 0 /\ last'.code = 201 /\
      (last' # last \/ attendance' # attendance)) =>
       /\ attendance' \ PairRows(attendance', last') =
            attendance \ PairRows(attendance, last')
       /\ lessons' = lessons
       /\ users' = users
       /\ PairRows(attendance, last') # {} =>
            \E old \in PairRows(attendance, last') :
              PairRows(attendance', last') =
                {[old EXCEPT !.status = last'.status, !.markedAt = now]}]_vars

\* a second mark of a pair, at a later time than the first, while another
\* pair has a row
C27_Witness ==
  /\ last.code = 201
  /\ \E r \in PairRows(attendance, last) :
       /\ r.markedAt = last.at
       /\ r.markedAt > r.createdAt
  /\ attendance \ PairRows(attendance, last) # {}

----------------------------------------------------------------------------
\* The status column of the admin lessons page (AdminLessons): each row of
\* the table is classified against the clock at the time of rendering.

DefaultDuration == 120

\* lesson.durationMinutes || 120
DurationOrDefault(lesson) ==
  IF lesson.durationMinutes = 0 THEN DefaultDuration ELSE lesson.durationMinutes

LessonStatus(lesson, t) ==
  LET currentDay == GetDay(t)
      currentTimeMinutes == t % MinutesPerDay
      endTimeMinutes == lesson.startTimeMinutes + DurationOrDefault(lesson)
  IN  IF lesson.dayOfWeek = currentDay
        THEN IF currentTimeMinutes > endTimeMinutes THEN "Completed"
             ELSE IF currentTimeMinutes >= lesson.startTimeMinutes THEN "In Progress"
             ELSE "Not Started"
        ELSE IF \/ (currentDay > lesson.dayOfWeek /\ currentDay # 0)
                \/ (currentDay = 0 /\ lesson.dayOfWeek # 0)
               THEN "Completed"
               ELSE "Not Started"

\* one row of the page is rendered: the label shown for lesson id at now
RenderLesson(id) ==
  /\ id \in DOMAIN lessons
  /\ last' = [NoRequest EXCEPT !.lessonId = id, !.at = now, !.code = 200,
                               !.message = LessonStatus(lessons[id], now)]
  /\ UNCHANGED <<now, users, lessons, attendance, nextAttendanceId, procs, tables>>

\* minutes of the day around the starts and ends of the sampled lessons
StatusMinutes == {4, 5, 65, 66, 539, 540, 600, 601, 660, 661, 1439}
StatusInstants == {d * MinutesPerDay + m : d \in Days, m \in StatusMinutes}
StatusDurations == {0, 60}

\* one lesson of any weekday, start and duration, seen from any sampled instant
InitStatus ==
  /\ now \in StatusInstants
  /\ users = InitUsers
  /\ \E dow \in DaysOfWeek, start \in StartTimes, dur \in StatusDurations :
       lessons = (1 :> LessonRow(1, 1, 2, dow, start, dur, 30, TRUE,
                                 FirstDay * MinutesPerDay))
  /\ attendance = {}
  /\ nextAttendanceId = 1
  /\ last = NoRequest
  /\ procs = IdleProcs
  /\ InitTables

NextStatus ==
  \/ \E t \in StatusInstants : Tick(t)
  \/ RenderLesson(1)

SpecStatus == InitStatus /\ [][NextStatus]_vars

----------------------------------------------------------------------------
LessonStatuses == {"Not Started", "In Progress", "Completed"}

\* the last thing that happened is the rendering of a row
Rendered(r) == r.actor = 0 /\ r.code = 200 /\ r.at # NoTime

\* C28: the classifier returns one of Not Started, In Progress, Completed, and
\* on the lesson's own weekday Completed iff the minutes since midnight exceed
\* startTimeMinutes + durationMinutes, In Progress iff they lie between
\* startTimeMinutes and startTimeMinutes + durationMinutes inclusive, and
\* Not Started iff they are below startTimeMinutes.
C28_StatusFollowsSchedule ==
  Rendered(last) =>
    LET lesson == lessons[last.lessonId]
        m == last.at % MinutesPerDay
        end == lesson.startTimeMinutes + lesson.durationMinutes
    IN  /\ last.message \in LessonStatuses
        /\ lesson.dayOfWeek = GetDay(last.at) =>
             /\ last.message = "Completed" <=> m > end
             /\ last.message = "In Progress" <=>
                  (lesson.startTimeMinutes <= m /\ m <= end)
             /\ last.message = "Not Started" <=> m < lesson.startTimeMinutes

\* Sunday 00:00 of the week an instant lies in
WeekStart(t) == t - (t % (7 * MinutesPerDay))

StatusRank(label) ==
  CASE label = "Not Started" -> 0
    [] label = "In Progress" -> 1
    [] label = "Completed" -> 2

\* C29: within one week from Sunday 00:00 to Saturday 23:59 the status of a
\* fixed lesson only moves forward as now advances.
C29_StatusOnlyMovesForward ==
  [][\A id \in DOMAIN lessons \cap DOMAIN lessons' :
       (lessons'[id] = lessons[id] /\ now' >= now /\
        WeekStart(now') = WeekStart(now)) =>
         StatusRank(LessonStatus(lessons[id], now)) <=
           StatusRank(LessonStatus(lessons'[id], now'))]_vars

----------------------------------------------------------------------------
\* the admin accounts of a users table
Admins(u) == {x \in DOMAIN u : u[x].role = "admin"}

\* C30: after a successful clearAllData the attendance, lessons,
\* teacher-department, classes, departments and levels tables are empty, the
\* users table holds exactly the admin users it held before, with the same ids
\* and usernames, and the system settings row is unchanged; a clear-data
\* request without the confirmation value changes nothing.
C30_ClearKeepsAdminsAndSettings ==
  [][/\ ClearData(AdminId, ConfirmClear) =>
          /\ last'.code = 200
          /\ attendance' = {}
          /\ teacherDepartments' = {}
          /\ lessons' = EmptyTable
          /\ classes' = EmptyTable
          /\ departments' = EmptyTable
          /\ levels' = EmptyTable
          /\ DOMAIN users' = Admins(users)
          /\ \A u \in DOMAIN users' :
               /\ users'[u].id = users[u].id
               /\ users'[u].username = users[u].username
               /\ users'[u].role = "admin"
          /\ systemSettings' = systemSettings
     /\ ClearData(AdminId, "") =>
          /\ last'.code = 400
          /\ UNCHANGED <<users, lessons, attendance, classes, teacherDepartments,
                         departments, levels, systemSettings, backup>>]_vars

\* the tables after a clear of a system that held a lesson, an attendance
\* row and changed settings
C30_Witness ==
  /\ last.message = MsgCleared
  /\ DOMAIN users = {AdminId}
  /\ users[AdminId].password = DefaultPassword
  /\ departments = EmptyTable
  /\ nextLessonId > 1
  /\ nextAttendanceId > 1
  /\ systemSettings.schoolName = "Hill School"

====
